---- MODULE Spec2Model ----
(***************************************************************************)
(* Model of the fileChart extension (src/extension.js).                    *)
(*                                                                         *)
(* Strings are sequences of one-character strings.  A JavaScript value     *)
(* that can appear in a series is a record [t, n, d]: a finite number n/d  *)
(* in lowest terms (t = "num"), null, undefined or NaN.  Doubles are       *)
(* modelled by exact rationals: rounding is not modelled.                  *)
(***************************************************************************)
EXTENDS Integers, Sequences, FiniteSets, TLC

(***************************************************************************)
(* Bounds of the model.                                                    *)
(***************************************************************************)
MaxRows == 3
MaxStats == 2
MaxPeriod == 3
MaxRuns == 1

(***************************************************************************)
(* JavaScript values and arithmetic.                                       *)
(***************************************************************************)
Null == [t |-> "null", n |-> 0, d |-> 1]
Undefined == [t |-> "undefined", n |-> 0, d |-> 1]
NaN == [t |-> "NaN", n |-> 0, d |-> 1]

Abs(x) == IF x < 0 THEN -x ELSE x

RECURSIVE Gcd(_, _)
Gcd(a, b) == IF b = 0 THEN a ELSE Gcd(b, a % b)

\* The number n/d (d # 0) in lowest terms with a positive denominator.
Num(n, d) ==
    LET g == Gcd(Abs(n), Abs(d))
        s == IF d < 0 THEN -1 ELSE 1
    IN [t |-> "num", n |-> s * (n \div g), d |-> s * (d \div g)]

Int2Num(i) == [t |-> "num", n |-> i, d |-> 1]

\* Infinity (sign 1) and -Infinity (sign -1).
Inf(sign) == [t |-> "inf", n |-> sign, d |-> 1]

\* The sign of a number or an infinity; zero counts as positive (the sign
\* of a zero is not kept).
SignOf(v) == IF v.n < 0 THEN -1 ELSE 1

\* ToNumber: null is 0, undefined is NaN.
ToNumber(v) ==
    CASE v.t \in {"num", "inf"} -> v
      [] v.t = "null" -> Int2Num(0)
      [] OTHER -> NaN

isNaN(v) == ToNumber(v).t = "NaN"

JsAdd(a, b) ==
    LET x == ToNumber(a)
        y == ToNumber(b)
    IN IF x.t = "NaN" \/ y.t = "NaN" THEN NaN
       ELSE IF x.t = "inf" /\ y.t = "inf" THEN (IF x.n = y.n THEN x ELSE NaN)
       ELSE IF x.t = "inf" THEN x
       ELSE IF y.t = "inf" THEN y
       ELSE Num(x.n * y.d + y.n * x.d, x.d * y.d)

JsSub(a, b) ==
    LET y == ToNumber(b)
    IN JsAdd(a, IF y.t = "NaN" THEN NaN ELSE [y EXCEPT !.n = -y.n])

JsMul(a, b) ==
    LET x == ToNumber(a)
        y == ToNumber(b)
    IN IF x.t = "NaN" \/ y.t = "NaN" THEN NaN
       ELSE IF x.t = "inf" \/ y.t = "inf"
       THEN (IF x.n = 0 \/ y.n = 0 THEN NaN ELSE Inf(SignOf(x) * SignOf(y)))
       ELSE Num(x.n * y.n, x.d * y.d)

\* Division: 0/0 and Infinity/Infinity are NaN, a non-zero number divided
\* by zero is an infinity.
JsDiv(a, b) ==
    LET x == ToNumber(a)
        y == ToNumber(b)
    IN IF x.t = "NaN" \/ y.t = "NaN" THEN NaN
       ELSE IF x.t = "inf" THEN (IF y.t = "inf" THEN NaN ELSE Inf(SignOf(x) * SignOf(y)))
       ELSE IF y.t = "inf" THEN Int2Num(0)
       ELSE IF y.n = 0 THEN (IF x.n = 0 THEN NaN ELSE Inf(SignOf(x)))
       ELSE Num(x.n * y.d, x.d * y.n)

\* value || 0 : null, undefined, NaN and 0 are falsy.
OrZero(v) == IF v.t = "inf" \/ (v.t = "num" /\ v.n # 0) THEN v ELSE Int2Num(0)

(***************************************************************************)
(* Strings.                                                                *)
(***************************************************************************)
DigitChars == <<"0", "1", "2", "3", "4", "5", "6", "7", "8", "9">>
IsDigit(c) == \E i \in 1..10 : DigitChars[i] = c
DigitVal(c) == (CHOOSE i \in 1..10 : DigitChars[i] = c) - 1
\* The white space and line terminators of ECMAScript, which trim, parseFloat
\* and parseInt strip.  A character that a string of this module cannot
\* hold is written as its code point.
WhiteSpace ==
    {" ", "\t", "\n", "\r", "\f", "U+000B", "U+00A0", "U+FEFF", "U+1680",
     "U+2000", "U+2001", "U+2002", "U+2003", "U+2004", "U+2005", "U+2006",
     "U+2007", "U+2008", "U+2009", "U+200A", "U+2028", "U+2029", "U+202F",
     "U+205F", "U+3000"}
IsSpace(c) == c \in WhiteSpace

RECURSIVE TrimStart(_)
TrimStart(s) ==
    IF s # <<>> /\ IsSpace(Head(s)) THEN TrimStart(Tail(s)) ELSE s

RECURSIVE TrimEnd(_)
TrimEnd(s) ==
    IF s # <<>> /\ IsSpace(s[Len(s)]) THEN TrimEnd(SubSeq(s, 1, Len(s) - 1)) ELSE s

\* String.prototype.trim
Trim(s) == TrimEnd(TrimStart(s))

\* Number of leading decimal digits of s.
RECURSIVE DigitRun(_)
DigitRun(s) ==
    IF s # <<>> /\ IsDigit(Head(s)) THEN 1 + DigitRun(Tail(s)) ELSE 0

RECURSIVE DigitsValue(_)
DigitsValue(ds) ==
    IF ds = <<>> THEN 0
    ELSE 10 * DigitsValue(SubSeq(ds, 1, Len(ds) - 1)) + DigitVal(ds[Len(ds)])

RECURSIVE Pow10(_)
Pow10(k) == IF k = 0 THEN 1 ELSE 10 * Pow10(k - 1)

Drop(s, k) == SubSeq(s, k + 1, Len(s))

InfinityChars == <<"I", "n", "f", "i", "n", "i", "t", "y">>
StartsWith(s, p) == Len(s) >= Len(p) /\ SubSeq(s, 1, Len(p)) = p

\* Length of the sign at the start of s.
SignLen(s) == IF s # <<>> /\ Head(s) \in {"+", "-"} THEN 1 ELSE 0

\* Length of the part .digits at the start of s (1 for a dot alone).
FracLen(s) == IF s # <<>> /\ Head(s) = "." THEN 1 + DigitRun(Tail(s)) ELSE 0

\* The digits[.digits] at the start of r, with ni integer digits and a
\* fraction part of length fl: the number of characters used, the number
\* of digits, and the value as num / den.
MantissaOf(r, ni, fl) ==
    [used |-> ni + fl,
     digits |-> ni + fl - (IF fl > 0 THEN 1 ELSE 0),
     num |-> DigitsValue(SubSeq(r, 1, ni)) * Pow10(fl - (IF fl > 0 THEN 1 ELSE 0))
             + DigitsValue(SubSeq(r, ni + 2, ni + fl)),
     den |-> Pow10(fl - (IF fl > 0 THEN 1 ELSE 0))]

Mantissa(r) == MantissaOf(r, DigitRun(r), FracLen(Drop(r, DigitRun(r))))

\* The exponent [+-]digits that follows the letter e, with a sign of length
\* sl and ne digits: the number of characters used with the letter (0 when
\* no digit follows) and the exponent.
ExponentOf(r, sl, ne) ==
    [used |-> IF ne > 0 THEN 1 + sl + ne ELSE 0,
     ex |-> (IF sl = 1 /\ Head(r) = "-" THEN -1 ELSE 1)
            * DigitsValue(SubSeq(r, sl + 1, sl + ne))]

\* The exponent part [eE][+-]digits at the start of r, if any.
ExponentPart(r) ==
    IF r # <<>> /\ Head(r) \in {"e", "E"}
    THEN ExponentOf(Tail(r), SignLen(Tail(r)), DigitRun(Drop(Tail(r), SignLen(Tail(r)))))
    ELSE [used |-> 0, ex |-> 0]

\* The unsigned literal at the start of r, from its mantissa m and its
\* exponent part e: [ok, used, val].
UnsignedOf(r, m, e) ==
    IF StartsWith(r, InfinityChars)
    THEN [ok |-> TRUE, used |-> Len(InfinityChars), val |-> Inf(1)]
    ELSE IF m.digits = 0 THEN [ok |-> FALSE, used |-> 0, val |-> NaN]
    ELSE [ok |-> TRUE, used |-> m.used + e.used,
          val |-> IF e.ex >= 0 THEN Num(m.num * Pow10(e.ex), m.den)
                  ELSE Num(m.num, m.den * Pow10(-e.ex))]

UnsignedWith(r, m) == UnsignedOf(r, m, ExponentPart(Drop(r, m.used)))

UnsignedPrefix(r) == UnsignedWith(r, Mantissa(r))

\* A literal after a sign of length sl, negative when neg.
WithSign(sl, neg, u) ==
    IF ~u.ok THEN u
    ELSE [ok |-> TRUE, used |-> sl + u.used,
          val |-> IF neg THEN [u.val EXCEPT !.n = -u.val.n] ELSE u.val]

\* The longest prefix of s that is a decimal literal (StrDecimalLiteral):
\* [+-]Infinity, or [+-]digits[.digits] with at least one digit and an
\* optional exponent [eE][+-]digits: [ok, used, val].
DecimalPrefix(s) ==
    WithSign(SignLen(s), s # <<>> /\ Head(s) = "-", UnsignedPrefix(Drop(s, SignLen(s))))

\* A table cell read by position: row[col] is undefined past the row's end.
CellAt(row, col) ==
    IF col + 1 <= Len(row) THEN [def |-> TRUE, s |-> row[col + 1]]
    ELSE [def |-> FALSE, s |-> <<>>]

\* parseFloat of a cell; an undefined cell reads as the text "undefined".
parseFloat(cell) ==
    IF ~cell.def THEN NaN ELSE DecimalPrefix(TrimStart(cell.s)).val

HexChars ==
    <<"0", "1", "2", "3", "4", "5", "6", "7", "8", "9", "a", "b", "c", "d", "e", "f">>
HexUpper == <<"A", "B", "C", "D", "E", "F">>
IsHexDigit(c) == (\E i \in 1..16 : HexChars[i] = c) \/ (\E i \in 1..6 : HexUpper[i] = c)
HexVal(c) ==
    IF \E i \in 1..16 : HexChars[i] = c
    THEN (CHOOSE i \in 1..16 : HexChars[i] = c) - 1
    ELSE (CHOOSE i \in 1..6 : HexUpper[i] = c) + 9

\* Number of leading hexadecimal digits of s.
RECURSIVE HexRun(_)
HexRun(s) ==
    IF s # <<>> /\ IsHexDigit(Head(s)) THEN 1 + HexRun(Tail(s)) ELSE 0

RECURSIVE HexValue(_)
HexValue(ds) ==
    IF ds = <<>> THEN 0
    ELSE 16 * HexValue(SubSeq(ds, 1, Len(ds) - 1)) + HexVal(ds[Len(ds)])

\* parseInt of a string with no radix given: after leading white space and
\* a sign, the digits after a 0x or 0X prefix are read in base 16 and any
\* other digits in base 10; NaN when no digit follows.
parseInt(s) ==
    LET r == TrimStart(s)
        signed == r # <<>> /\ Head(r) \in {"+", "-"}
        sg == IF signed /\ Head(r) = "-" THEN -1 ELSE 1
        r1 == IF signed THEN Tail(r) ELSE r
        hex == Len(r1) >= 2 /\ r1[1] = "0" /\ r1[2] \in {"x", "X"}
        r2 == IF hex THEN Drop(r1, 2) ELSE r1
        ni == IF hex THEN HexRun(r2) ELSE DigitRun(r2)
    IN IF ni = 0 THEN NaN
       ELSE Int2Num(sg * (IF hex THEN HexValue(SubSeq(r2, 1, ni))
                          ELSE DigitsValue(SubSeq(r2, 1, ni))))

RECURSIVE NatToString(_)
NatToString(k) ==
    IF k < 10 THEN <<DigitChars[k + 1]>>
    ELSE Append(NatToString(k \div 10), DigitChars[(k % 10) + 1])

\* Decimal digits of the fraction r/d (0 <= r < d), for a terminating one.
RECURSIVE FracDigits(_, _)
FracDigits(r, d) ==
    IF r = 0 THEN <<>>
    ELSE <<DigitChars[((10 * r) \div d) + 1]>> \o FracDigits((10 * r) % d, d)

\* Number.prototype.toString for null, NaN, the infinities and numbers with
\* a terminating decimal expansion in the range printed without an exponent.
NumberToString(v) ==
    CASE v.t = "NaN" -> <<"N", "a", "N">>
      [] v.t = "inf" -> (IF v.n < 0 THEN <<"-">> ELSE <<>>) \o InfinityChars
      [] v.t = "null" -> <<"n", "u", "l", "l">>
      [] v.t = "undefined" -> <<"u", "n", "d", "e", "f", "i", "n", "e", "d">>
      [] OTHER ->
           LET a == Abs(v.n)
               ip == NatToString(a \div v.d)
               fd == FracDigits(a % v.d, v.d)
           IN (IF v.n < 0 THEN <<"-">> ELSE <<>>) \o ip
              \o (IF fd = <<>> THEN <<>> ELSE <<".">> \o fd)

\* Array.prototype.join(",") of an array of numbers (Array.prototype.toString).
\* null and undefined elements join as the empty text.
ElementToString(v) ==
    IF v.t \in {"null", "undefined"} THEN <<>> ELSE NumberToString(v)

RECURSIVE ArrayToString(_)
ArrayToString(arr) ==
    IF arr = <<>> THEN <<>>
    ELSE IF Len(arr) = 1 THEN ElementToString(arr[1])
    ELSE ElementToString(arr[1]) \o <<",">> \o ArrayToString(Tail(arr))

\* ToNumber of a string: the whole trimmed text must be a numeric literal;
\* the empty text is 0.
StringToNumber(s) ==
    LET r == Trim(s)
        p == DecimalPrefix(r)
    IN IF r = <<>> THEN Int2Num(0)
       ELSE IF p.ok /\ p.used = Len(r) THEN p.val
       ELSE NaN

\* ToNumber of an array: the array is first converted to its string.
ArrayToNumber(arr) == StringToNumber(ArrayToString(arr))

(***************************************************************************)
(* parseFile (lines 60-79).                                                *)
(***************************************************************************)
Includes(s, c) == \E i \in 1..Len(s) : s[i] = c

\* String.prototype.split(sep) for a one-character separator.
RECURSIVE SplitFrom(_, _, _)
SplitFrom(s, sep, cur) ==
    IF s = <<>> THEN <<cur>>
    ELSE IF Head(s) = sep THEN <<cur>> \o SplitFrom(Tail(s), sep, <<>>)
    ELSE SplitFrom(Tail(s), sep, Append(cur, Head(s)))

Split(s, sep) == SplitFrom(s, sep, <<>>)

RECURSIVE NonBlank(_)
NonBlank(ls) ==
    IF ls = <<>> THEN <<>>
    ELSE IF Trim(Head(ls)) # <<>> THEN <<Head(ls)>> \o NonBlank(Tail(ls))
    ELSE NonBlank(Tail(ls))

DetectSeparator(firstLine) ==
    IF Includes(firstLine, "\t") THEN "\t"
    ELSE IF Includes(firstLine, ";") THEN ";"
    ELSE IF Includes(firstLine, "|") THEN "|"
    ELSE "\t"

NoSeparator(firstLine) ==
    ~Includes(firstLine, "\t") /\ ~Includes(firstLine, ";") /\ ~Includes(firstLine, "|")

\* [headers, data, warned]: warned when the separator defaulted to tab.
parseFile(content) ==
    LET lines == NonBlank(Split(content, "\n"))
    IN IF Len(lines) = 0
       THEN [headers |-> <<>>, data |-> <<>>, warned |-> FALSE]
       ELSE LET separator == DetectSeparator(lines[1])
                hs == Split(lines[1], separator)
            IN [headers |-> [i \in 1..Len(hs) |-> Trim(hs[i])],
                data |-> [i \in 1..(Len(lines) - 1) |-> Split(lines[i + 1], separator)],
                warned |-> NoSeparator(lines[1])]

(***************************************************************************)
(* The statistic series (lines 160-208).                                   *)
(***************************************************************************)
StatLabels == <<"Max", "Min", "Average", "SMA", "EMA">>

NameMax == <<"M", "a", "x">>
NameMin == <<"M", "i", "n">>
NameAvg == <<"A", "v", "g">>
NameSMA == <<"S", "M", "A">>
NameEMA == <<"E", "M", "A">>

\* data.filter(v => v !== null)
RECURSIVE FilterNotNull(_)
FilterNotNull(arr) ==
    IF arr = <<>> THEN <<>>
    ELSE IF Head(arr) # Null THEN <<Head(arr)>> \o FilterNotNull(Tail(arr))
    ELSE FilterNotNull(Tail(arr))

\* Math.max and Math.min called with one argument, here the filtered array:
\* the argument is converted by ToNumber and is the only candidate.
MathMax(arg) == ArrayToNumber(arg)
MathMin(arg) == ArrayToNumber(arg)

\* arr.reduce((a, b) => a + b, 0)
RECURSIVE ReduceSum(_)
ReduceSum(arr) ==
    IF arr = <<>> THEN Int2Num(0)
    ELSE JsAdd(ReduceSum(SubSeq(arr, 1, Len(arr) - 1)), arr[Len(arr)])

\* arr => arr.reduce((a, b) => a + b, 0) / arr.length
AverageFn(arr) == JsDiv(ReduceSum(arr), Int2Num(Len(arr)))

ApplyStatFunction(statName, arr) ==
    CASE statName = NameMax -> MathMax(arr)
      [] statName = NameMin -> MathMin(arr)
      [] OTHER -> AverageFn(arr)

createStatSeries(originalSeries, statName) ==
    LET statValue == ApplyStatFunction(statName, FilterNotNull(originalSeries.data))
    IN [name |-> originalSeries.name \o <<" ", "(">> \o statName \o <<")">>,
        data |-> [i \in 1..Len(originalSeries.data) |-> statValue],
        dashStyle |-> "ShortDash",
        marker |-> "disabled"]

\* slice.reduce((sum, value) => sum + (value || 0), 0)
RECURSIVE ReduceSumOrZero(_)
ReduceSumOrZero(arr) ==
    IF arr = <<>> THEN Int2Num(0)
    ELSE JsAdd(ReduceSumOrZero(SubSeq(arr, 1, Len(arr) - 1)), OrZero(arr[Len(arr)]))

\* SmaAt changed to average the non-absent values of the window only.
SmaAtSkippingAbsent(data, i, period) ==
    IF i < period.n - 1 THEN Null
    ELSE JsDiv(ReduceSumOrZero(SubSeq(data, i - period.n + 2, i + 1)),
               Int2Num(Len(FilterNotNull(SubSeq(data, i - period.n + 2, i + 1)))))

\* One element of smaData; i is the 0-based index of the loop.
SmaAt(data, i, period) ==
    IF i < period.n - 1 THEN Null
    ELSE JsDiv(ReduceSumOrZero(SubSeq(data, i - period.n + 2, i + 1)), period)

\* period is a positive integer number.
createSMA(originalSeries, period) ==
    [name |-> originalSeries.name \o <<" ", "(">> \o NameSMA \o <<" ">>
                \o NumberToString(period) \o <<")">>,
     data |-> [i \in 1..Len(originalSeries.data) |-> SmaAt(originalSeries.data, i - 1, period)],
     dashStyle |-> "ShortDash",
     marker |-> "disabled"]

\* The loop of createEMA from 0-based index i, emaData so far being acc.
RECURSIVE EmaLoop(_, _, _, _, _)
EmaLoop(data, i, ema, k, acc) ==
    IF i >= Len(data) THEN acc
    ELSE LET value == data[i + 1]
             next == IF value # Null
                     THEN JsAdd(JsMul(value, k), JsMul(ema, JsSub(Int2Num(1), k)))
                     ELSE ema
         IN EmaLoop(data, i + 1, next, k, Append(acc, next))

\* data[0] of an empty array is undefined, and emaData starts as [ema].
createEMA(originalSeries, period) ==
    LET k == JsDiv(Int2Num(2), JsAdd(period, Int2Num(1)))
        ema == IF Len(originalSeries.data) > 0 THEN originalSeries.data[1] ELSE Undefined
    IN [name |-> originalSeries.name \o <<" ", "(">> \o NameEMA \o <<" ">>
                   \o NumberToString(period) \o <<")">>,
        data |-> EmaLoop(originalSeries.data, 1, ema, k, <<ema>>),
        dashStyle |-> "ShortDot",
        marker |-> "disabled"]

(***************************************************************************)
(* processData (lines 124-158).                                            *)
(***************************************************************************)
\* Push changed to insert at the front of the list.
PushFront(series, x) == <<x>> \o series

\* series.push(x)
Push(series, x) == Append(series, x)

\* The body of the switch for one statistic: the series that is pushed.
Overlay(s, stat, periods) ==
    CASE stat = "Max" -> createStatSeries(s, NameMax)
      [] stat = "Min" -> createStatSeries(s, NameMin)
      [] stat = "Average" -> createStatSeries(s, NameAvg)
      [] stat = "SMA" -> createSMA(s, periods.sma)
      [] stat = "EMA" -> createEMA(s, periods.ema)

\* statistics.forEach(stat => ...) for the element s, from statistic j on.
RECURSIVE ForEachStat(_, _, _, _, _)
ForEachStat(series, s, statistics, periods, j) ==
    IF j > Len(statistics) THEN series
    ELSE ForEachStat(
             IF statistics[j] \in {"Max", "Min", "Average", "SMA", "EMA"}
             THEN Push(series, Overlay(s, statistics[j], periods))
             ELSE series,
             s, statistics, periods, j + 1)

\* Visits changed to follow the growing list one element past the length
\* on entry.
VisitsLive(k, len0, series) == k <= len0 + (IF Len(series) > len0 THEN 1 ELSE 0)

\* Array.prototype.forEach reads the length once, before the first call:
\* the element at (1-based) index k is visited when k is within len0.
Visits(k, len0, series) == k <= len0

\* series.forEach(s => ...) from index k on, len0 being the length on entry.
RECURSIVE ForEachSeries(_, _, _, _, _)
ForEachSeries(series, k, len0, statistics, periods) ==
    IF ~Visits(k, len0, series) THEN series
    ELSE ForEachSeries(ForEachStat(series, series[k], statistics, periods, 1),
                       k + 1, len0, statistics, periods)

\* selectedColumns.slice(1).map(colIndex => ({name, data}))
BaseSeries(headers, data, selectedColumns) ==
    [c \in 1..(Len(selectedColumns) - 1) |->
        [name |-> headers[selectedColumns[c + 1] + 1],
         data |-> [i \in 1..Len(data) |->
                     LET value == parseFloat(CellAt(data[i], selectedColumns[c + 1]))
                     IN IF isNaN(value) THEN Null ELSE value],
         dashStyle |-> "none",
         marker |-> "default"]]

\* data.map(row => row[0])
Categories(data) == [i \in 1..Len(data) |-> CellAt(data[i], 0)]

processData(headers, data, selectedColumns, statistics, periods) ==
    LET series == BaseSeries(headers, data, selectedColumns)
    IN [series |-> ForEachSeries(series, 1, Len(series), statistics, periods),
        categories |-> Categories(data)]

(***************************************************************************)
(* The extension's state (activate, lines 4-7) and its environment.        *)
(***************************************************************************)
VARIABLES
    panels,           \* Map panelId -> panel (the panel's id)
    states,           \* Map panelId -> chart state
    lastUsedColumns,  \* Map fileName -> selected indexes
    webviews,         \* the live (not disposed) webview panels, by id
    runs,             \* the invocations of the command handler
    output,           \* the notification or message the last step sent, if any
    lastUpdate,       \* history: payload of the last stateUpdate per panelId
    content,          \* data specification: the text of the document
    args,             \* data specification: arguments of the last processData
    out               \* data specification: result of the last processData

vars == <<panels, states, lastUsedColumns, webviews, runs, output, lastUpdate,
          content, args, out>>

dataVars == <<content, args, out>>

\* Maps are functions on the set of keys they hold.
EmptyMap == <<>>
MapHas(m, k) == k \in DOMAIN m
MapSet(m, k, v) == [x \in (DOMAIN m) \cup {k} |-> IF x = k THEN v ELSE m[x]]
MapDelete(m, k) == [x \in (DOMAIN m) \ {k} |-> m[x]]

\* An optional value: undefined, or v.
Some(v) == [def |-> TRUE, v |-> v]
NoSeq == [def |-> FALSE, v |-> <<>>]
NoString == [def |-> FALSE, v |-> ""]
NoPanel == [def |-> FALSE, v |-> 0]
NoState == [def |-> FALSE, v |-> [xAxis |-> <<0, 0>>, yAxis |-> <<0, 0>>, visibility |-> <<>>]]

GetColumns(m, k) == IF MapHas(m, k) THEN Some(m[k]) ELSE NoSeq
GetPanel(m, k) == IF MapHas(m, k) THEN Some(m[k]) ELSE NoPanel
GetState(m, k) == IF MapHas(m, k) THEN Some(m[k]) ELSE NoState

\* The documents an editor may show, and their text.
\* vscode.window.activeTextEditor: undefined, or an editor on the document
\* of the given file name.
NoEditor == [def |-> FALSE, v |-> <<>>]

\* The file names of the documents.
FileA == <<"/", "d", "/", "a", ".", "c", "s", "v">>
FileB == <<"/", "d", "/", "b", ".", "c", "s", "v">>
FileC == <<"c", ".", "t", "x", "t">>
FileE == <<"/", "e", ".", "t", "x", "t">>

DocText(fileName) ==
    CASE fileName = FileA -> <<"t", ";", "a", "\n", "x", ";", "1", "\n", "y", ";", "3", "\n">>
      [] fileName = FileB -> <<"t", "|", " ", "b", "\n", "\n", "x", "|", "b", "\n">>
      [] fileName = FileC -> <<"t", " ", "c", "\n", "4", "\n">>
      [] OTHER -> <<" ", "\n", "\n">>

\* parseFile(document.getText()) of each document (lines 13-14).
Documents == {FileA, FileB, FileC, FileE}
ParsedDocument == [fileName \in Documents |-> parseFile(DocText(fileName))]

\* The chart types offered (line 18).
ChartTypes == {"line", "spline", "bar", "column", "pie"}

\* path.basename (POSIX): the part of the path after its last slash, the
\* trailing slashes left aside.
RECURSIVE StripSlashes(_)
StripSlashes(p) ==
    IF p # <<>> /\ p[Len(p)] = "/" THEN StripSlashes(SubSeq(p, 1, Len(p) - 1)) ELSE p

RECURSIVE AfterLastSlash(_)
AfterLastSlash(p) ==
    IF \E i \in 1..Len(p) : p[i] = "/" THEN AfterLastSlash(Tail(p)) ELSE p

Basename(p) == AfterLastSlash(StripSlashes(p))

PanelId(fileName) == <<"c", "h", "a", "r", "t", "-">> \o fileName
ChartTitle(fileName) == <<"C", "h", "a", "r", "t", ":", " ">> \o Basename(fileName)

(***************************************************************************)
(* selectColumns (lines 38-58).                                            *)
(***************************************************************************)
\* headers.indexOf(label): the 0-based index of the first match, or -1.
IndexOf(headers, label) ==
    IF \E i \in 1..Len(headers) : headers[i] = label
    THEN (CHOOSE i \in 1..Len(headers) :
              headers[i] = label /\ \A j \in 1..(i - 1) : headers[j] # label) - 1
    ELSE -1

\* The labels of the options at the picked positions, in option order.
RECURSIVE ItemsFrom(_, _, _)
ItemsFrom(headers, picked, i) ==
    IF i > Len(headers) THEN <<>>
    ELSE (IF (i - 1) \in picked THEN <<headers[i]>> ELSE <<>>)
         \o ItemsFrom(headers, picked, i + 1)

\* What the quick pick of the columns may resolve to: undefined on
\* cancellation, or the items of any set of options, the empty one included.
ColumnPicks(headers) ==
    {NoSeq} \cup {Some(ItemsFrom(headers, picked, 1)) : picked \in SUBSET (0..(Len(headers) - 1))}

\* selectColumns changed to drop the fallback to the stored selection.
selectColumnsNoFallback(headers, lastUsed, selectedItems) ==
    IF selectedItems.def /\ Len(selectedItems.v) > 0
    THEN LET selectedIndexes ==
                 [i \in 1..Len(selectedItems.v) |-> IndexOf(headers, selectedItems.v[i])]
         IN [result |-> Some(<<0>> \o selectedIndexes), store |-> Some(selectedIndexes)]
    ELSE [result |-> NoSeq, store |-> NoSeq]

\* The part of selectColumns after the await: lastUsed is the value read
\* from lastUsedColumns before it.  [result, store]: the value returned
\* (undefined for null) and the value set in lastUsedColumns, if any.
selectColumns(headers, lastUsed, selectedItems) ==
    IF selectedItems.def /\ Len(selectedItems.v) > 0
    THEN LET selectedIndexes ==
                 [i \in 1..Len(selectedItems.v) |-> IndexOf(headers, selectedItems.v[i])]
         IN [result |-> Some(<<0>> \o selectedIndexes), store |-> Some(selectedIndexes)]
    ELSE IF lastUsed.def
    THEN [result |-> Some(<<0>> \o lastUsed.v), store |-> NoSeq]
    ELSE [result |-> NoSeq, store |-> NoSeq]

(***************************************************************************)
(* selectStatistics and getMovingAveragePeriod (lines 81-122).             *)
(***************************************************************************)
DefaultPeriod == 20

\* selectedItems ? selectedItems.map(item => item.label) : []
selectStatistics(selectedItems) ==
    IF selectedItems.def THEN selectedItems.v ELSE <<>>

\* validateInput (lines 116-119): the input box accepts the text.
validateInput(value) ==
    LET num == parseInt(value) IN num.t = "num" /\ num.n > 0

\* period ? parseInt(period) : 20
getMovingAveragePeriod(period) ==
    IF period.def /\ period.v # <<>> THEN parseInt(period.v) ELSE Int2Num(DefaultPeriod)

SeqIncludes(seq, x) == \E i \in 1..Len(seq) : seq[i] = x

(***************************************************************************)
(* The command handler (lines 9-34) and showChart (lines 210-266).         *)
(***************************************************************************)
\* A slot of the handler.  pc is "idle" before the first invocation, the
\* await the invocation is suspended at, or how the last invocation ended.
\* The last four fields are history.  answer: how the quick pick of columns
\* resolved ("cancel", "empty" or "items"), kept until the next input
\* resolves.  cancelled: the inputs of this run the user cancelled, but for
\* a column pick that fell back to a stored selection.  hadPanel, created:
\* what showChart found and did.
Idle ==
    [pc |-> "idle", fileName |-> <<>>, lastUsed |-> NoSeq, selectedColumns |-> <<>>,
     chartType |-> "", statistics |-> <<>>,
     periods |-> [sma |-> Undefined, ema |-> Undefined],
     answer |-> "", cancelled |-> {}, hadPanel |-> FALSE, created |-> FALSE]

Ended(run, pc) ==
    [Idle EXCEPT !.pc = pc, !.answer = run.answer, !.cancelled = run.cancelled]

Slots == 1..MaxRuns

Free(run) == run.pc \in {"idle", "shown", "aborted", "noEditor", "noData"}

\* PanelExists changed to never find the panel.
PanelNeverFound(panel) == FALSE

\* if (panel) (line 215)
PanelExists(panel) == panel.def

\* if (selectedColumns) (line 17)
ColumnsChosen(selectedColumns) == selectedColumns.def

\* ChartTypeChosen changed to go on without a chart type.
ChartTypeIgnored(chartType) == TRUE

\* if (chartType) (line 21)
ChartTypeChosen(chartType) == chartType.def /\ chartType.v # ""

\* The id the host gives the next panel it creates.
NewPanel == CHOOSE i \in 1..(Cardinality(DOMAIN webviews) + 1) :
                i \notin DOMAIN webviews /\ \A j \in 1..(i - 1) : j \in DOMAIN webviews

\* What getWebviewContent interpolates into the page (lines 268-441).
getWebviewContent(series, categories, chartTitle, chartType, state) ==
    [chartTitle |-> chartTitle, chartType |-> chartType, nSeries |-> Len(series),
     nCategories |-> Len(categories), state |-> state]

\* DisposeState changed to keep the stored state.
DisposeKeepsState(statesMap, panelId) == statesMap

\* states.delete(panelId) of the dispose handler (line 232)
DisposeState(statesMap, panelId) == MapDelete(statesMap, panelId)

\* states.set(panelId, message.state) (line 246)
StoreState(statesMap, panelId, state) == MapSet(statesMap, panelId, state)

\* Nothing is shown or posted.
NoOutput == [kind |-> "none", text |-> "", state |-> NoState, expect |-> NoState]

Notification(text) == [kind |-> "notification", text |-> text, state |-> NoState, expect |-> NoState]

\* showChart for the run in slot r, which then ends.  A panel's expect is
\* history: the last stateUpdate payload when its page was rendered.
showChart(r, run, series, categories) ==
    LET panelId == PanelId(run.fileName)
        panel == GetPanel(panels, panelId)
        id == IF PanelExists(panel) THEN panel.v ELSE NewPanel
        state == GetState(states, panelId)
        html == getWebviewContent(series, categories, ChartTitle(run.fileName),
                                  run.chartType, state)
    IN /\ panels' = IF PanelExists(panel) THEN panels ELSE MapSet(panels, panelId, id)
       /\ webviews' = MapSet(webviews, id,
                             [panelId |-> panelId, html |-> html,
                              expect |-> GetState(lastUpdate, panelId)])
       /\ runs' = [runs EXCEPT ![r] =
                      [Ended(run, "shown") EXCEPT
                          !.hadPanel = \E w \in DOMAIN webviews : webviews[w].panelId = panelId,
                          !.created = DOMAIN webviews' # DOMAIN webviews]]
       /\ output' = NoOutput
       /\ UNCHANGED <<states, lastUpdate>>

\* The rest of the handler once the periods are known (lines 24-25).
Render(r, run) ==
    LET parsed == ParsedDocument[run.fileName]
        pd == processData(parsed.headers, parsed.data, run.selectedColumns,
                          run.statistics, run.periods)
    IN showChart(r, run, pd.series, pd.categories)

\* The run ends without a chart.
Abort(r, run, pc) ==
    /\ runs' = [runs EXCEPT ![r] = Ended(run, pc)]
    /\ UNCHANGED <<panels, states, webviews, lastUpdate>>

\* The command is invoked: the handler runs up to the quick pick of columns.
\* The invocation takes the first slot that holds no handler in flight.
InvokeCommand(r, editor) ==
    /\ Free(runs[r])
    /\ \A q \in 1..(r - 1) : ~Free(runs[q])
    /\ UNCHANGED <<lastUsedColumns, dataVars>>
    /\ IF ~editor.def
       THEN /\ output' = Notification("No active text editor found.")
            /\ Abort(r, Idle, "noEditor")
       ELSE LET parsed == ParsedDocument[editor.v]
            IN IF Len(parsed.headers) > 0
               THEN /\ runs' = [runs EXCEPT ![r] =
                                   [Idle EXCEPT !.pc = "columns", !.fileName = editor.v,
                                       !.lastUsed = GetColumns(lastUsedColumns, editor.v)]]
                    /\ output' = IF parsed.warned
                                 THEN Notification("No valid separator detected. Defaulting to tab.")
                                 ELSE NoOutput
                    /\ UNCHANGED <<panels, states, webviews, lastUpdate>>
               ELSE /\ output' = Notification("No valid data found in the file.")
                    /\ Abort(r, Idle, "noData")

HeadersOf(run) == ParsedDocument[run.fileName].headers

\* The quick pick of columns resolves: the rest of selectColumns, then the
\* handler up to the quick pick of the chart type.
ColumnsResponse(r, selectedItems) ==
    LET run == runs[r]
        sel == selectColumns(HeadersOf(run), run.lastUsed, selectedItems)
        answer == IF ~selectedItems.def THEN "cancel"
                  ELSE IF selectedItems.v = <<>> THEN "empty"
                  ELSE "items"
        cancelled == IF ~selectedItems.def /\ ~run.lastUsed.def THEN {"columns"} ELSE {}
    IN /\ run.pc = "columns"
       /\ lastUsedColumns' = IF sel.store.def
                             THEN MapSet(lastUsedColumns, run.fileName, sel.store.v)
                             ELSE lastUsedColumns
       /\ output' = NoOutput
       /\ UNCHANGED dataVars
       /\ IF ColumnsChosen(sel.result)
          THEN /\ runs' = [runs EXCEPT ![r] =
                              [run EXCEPT !.pc = "chartType", !.selectedColumns = sel.result.v,
                                          !.lastUsed = NoSeq, !.answer = answer,
                                          !.cancelled = cancelled]]
               /\ UNCHANGED <<panels, states, webviews, lastUpdate>>
          ELSE Abort(r, [run EXCEPT !.answer = answer, !.cancelled = cancelled], "aborted")

\* The quick pick of the chart type resolves.
ChartTypeResponse(r, chartType) ==
    LET run == runs[r]
        cancelled == IF chartType.def THEN run.cancelled
                     ELSE run.cancelled \cup {"chartType"}
    IN /\ run.pc = "chartType"
       /\ output' = NoOutput
       /\ UNCHANGED <<lastUsedColumns, dataVars>>
       /\ IF ChartTypeChosen(chartType)
          THEN /\ runs' = [runs EXCEPT ![r] =
                              [run EXCEPT !.pc = "statistics", !.chartType = chartType.v,
                                          !.answer = "", !.cancelled = cancelled]]
               /\ UNCHANGED <<panels, states, webviews, lastUpdate>>
          ELSE Abort(r, [run EXCEPT !.answer = "", !.cancelled = cancelled], "aborted")

\* The quick pick of statistics resolves: selectStatistics returns, and
\* getMovingAveragePeriods runs up to its first input box, if any.
StatisticsResponse(r, selectedItems) ==
    LET run == runs[r]
        statistics == selectStatistics(selectedItems)
        next == [run EXCEPT !.statistics = statistics,
                            !.cancelled = IF selectedItems.def THEN run.cancelled
                                          ELSE run.cancelled \cup {"statistics"}]
    IN /\ run.pc = "statistics"
       /\ UNCHANGED <<lastUsedColumns, dataVars>>
       /\ IF SeqIncludes(statistics, "SMA")
          THEN /\ runs' = [runs EXCEPT ![r] = [next EXCEPT !.pc = "sma"]]
               /\ output' = NoOutput
               /\ UNCHANGED <<panels, states, webviews, lastUpdate>>
          ELSE IF SeqIncludes(statistics, "EMA")
          THEN /\ runs' = [runs EXCEPT ![r] = [next EXCEPT !.pc = "ema"]]
               /\ output' = NoOutput
               /\ UNCHANGED <<panels, states, webviews, lastUpdate>>
          ELSE Render(r, next)

\* The input box of the SMA period resolves.
SmaPeriodResponse(r, period) ==
    LET run == runs[r]
        next == [run EXCEPT !.periods.sma = getMovingAveragePeriod(period),
                            !.cancelled = IF period.def THEN run.cancelled
                                          ELSE run.cancelled \cup {"sma"}]
    IN /\ run.pc = "sma"
       /\ period.def => validateInput(period.v)
       /\ UNCHANGED <<lastUsedColumns, dataVars>>
       /\ IF SeqIncludes(run.statistics, "EMA")
          THEN /\ runs' = [runs EXCEPT ![r] = [next EXCEPT !.pc = "ema"]]
               /\ output' = NoOutput
               /\ UNCHANGED <<panels, states, webviews, lastUpdate>>
          ELSE Render(r, next)

\* The input box of the EMA period resolves.
EmaPeriodResponse(r, period) ==
    LET run == runs[r]
        next == [run EXCEPT !.periods.ema = getMovingAveragePeriod(period),
                            !.cancelled = IF period.def THEN run.cancelled
                                          ELSE run.cancelled \cup {"ema"}]
    IN /\ run.pc = "ema"
       /\ period.def => validateInput(period.v)
       /\ UNCHANGED <<lastUsedColumns, dataVars>>
       /\ Render(r, next)

\* The user closes a panel: the onDidDispose handler (lines 229-236).
DisposePanel(id) ==
    /\ id \in DOMAIN webviews
    /\ LET panelId == webviews[id].panelId
       IN /\ panels' = MapDelete(panels, panelId)
          /\ states' = DisposeState(states, panelId)
          /\ lastUpdate' = MapDelete(lastUpdate, panelId)
    /\ webviews' = MapDelete(webviews, id)
    /\ output' = NoOutput
    /\ UNCHANGED <<lastUsedColumns, runs, dataVars>>

\* A 'stateUpdate' message of a panel's page arrives (lines 242-247).
ReceiveStateUpdate(id, state) ==
    /\ id \in DOMAIN webviews
    /\ states' = StoreState(states, webviews[id].panelId, state)
    /\ lastUpdate' = MapSet(lastUpdate, webviews[id].panelId, state)
    /\ output' = NoOutput
    /\ UNCHANGED <<panels, lastUsedColumns, webviews, runs, dataVars>>

\* An 'error' message of a panel's page arrives (lines 248-250).
ReceiveError(id, text) ==
    /\ id \in DOMAIN webviews
    /\ output' = Notification(text)
    /\ UNCHANGED <<panels, states, lastUsedColumns, webviews, runs, lastUpdate, dataVars>>

\* A panel's view state changes (lines 257-265): when it is visible the
\* stored state is posted to the page as 'restoreState'.
ChangeViewState(id, visible) ==
    /\ id \in DOMAIN webviews
    /\ output' = IF visible
                 THEN [kind |-> "restoreState", text |-> "",
                       state |-> GetState(states, webviews[id].panelId),
                       expect |-> GetState(lastUpdate, webviews[id].panelId)]
                 ELSE NoOutput
    /\ UNCHANGED <<panels, states, lastUsedColumns, webviews, runs, lastUpdate, dataVars>>

InitData ==
    /\ content = <<"t", ";", "a", ";", "b", "\n">>
    /\ args = [called |-> FALSE, selectedColumns |-> <<0>>, statistics |-> <<>>,
               periods |-> [sma |-> Undefined, ema |-> Undefined]]
    /\ out = [series |-> <<>>, categories |-> <<>>]

InitExt ==
    /\ panels = EmptyMap
    /\ states = EmptyMap
    /\ lastUsedColumns = EmptyMap
    /\ webviews = EmptyMap
    /\ runs = [r \in Slots |-> Idle]
    /\ output = NoOutput
    /\ lastUpdate = EmptyMap

Init == InitExt /\ InitData

(***************************************************************************)
(* Spec: the command on one document; every answer to every input.         *)
(***************************************************************************)
Editors == {Some(FileA), Some(FileE), NoEditor}
ChartTypePicks == {NoString, Some("line")}
StatisticPicks ==
    {NoSeq, Some(<<>>), Some(<<"SMA">>), Some(<<"EMA">>), Some(<<"SMA", "EMA">>)}
PeriodResponses == {NoSeq, Some(<<" ", "2", "a">>)}
StatePayloads ==
    {[xAxis |-> <<0, 1>>, yAxis |-> <<1, 3>>, visibility |-> <<TRUE>>]}

Next ==
    \/ \E r \in Slots, editor \in Editors : InvokeCommand(r, editor)
    \/ \E r \in Slots :
           /\ runs[r].pc = "columns"
           /\ \E items \in ColumnPicks(HeadersOf(runs[r])) : ColumnsResponse(r, items)
    \/ \E r \in Slots, c \in ChartTypePicks : ChartTypeResponse(r, c)
    \/ \E r \in Slots, items \in StatisticPicks : StatisticsResponse(r, items)
    \/ \E r \in Slots, p \in PeriodResponses : SmaPeriodResponse(r, p)
    \/ \E r \in Slots, p \in PeriodResponses : EmaPeriodResponse(r, p)
    \/ \E id \in DOMAIN webviews : DisposePanel(id)
    \/ \E id \in DOMAIN webviews, state \in StatePayloads : ReceiveStateUpdate(id, state)
    \/ \E id \in DOMAIN webviews : ReceiveError(id, "Error: x at page:1")
    \/ \E id \in DOMAIN webviews, visible \in BOOLEAN : ChangeViewState(id, visible)

Spec == Init /\ [][Next]_vars

(***************************************************************************)
(* SpecPanels: the command on two documents; the user picks the last       *)
(* column or cancels, picks a chart type and two statistics and leaves the *)
(* periods to their default; the pages send two different states.          *)
(***************************************************************************)
PanelEditors == {Some(FileA), Some(FileB)}
PanelColumnPicks(headers) ==
    {NoSeq} \cup {Some(<<headers[i]>>) : i \in {Len(headers)} \ {0}}
PanelChartTypePicks == {Some("pie")}
PanelStatisticPicks == {Some(<<"SMA", "EMA">>)}
PanelPeriodResponses == {NoSeq}
PanelStatePayloads ==
    {[xAxis |-> <<0, 1>>, yAxis |-> <<1, 3>>, visibility |-> <<TRUE>>],
     [xAxis |-> <<0, 0>>, yAxis |-> <<1, 3>>, visibility |-> <<FALSE>>]}

NextPanels ==
    \/ \E r \in Slots, editor \in PanelEditors : InvokeCommand(r, editor)
    \/ \E r \in Slots :
           /\ runs[r].pc = "columns"
           /\ \E items \in PanelColumnPicks(HeadersOf(runs[r])) : ColumnsResponse(r, items)
    \/ \E r \in Slots, c \in PanelChartTypePicks : ChartTypeResponse(r, c)
    \/ \E r \in Slots, items \in PanelStatisticPicks : StatisticsResponse(r, items)
    \/ \E r \in Slots, p \in PanelPeriodResponses : SmaPeriodResponse(r, p)
    \/ \E r \in Slots, p \in PanelPeriodResponses : EmaPeriodResponse(r, p)
    \/ \E id \in DOMAIN webviews : DisposePanel(id)
    \/ \E id \in DOMAIN webviews, state \in PanelStatePayloads : ReceiveStateUpdate(id, state)
    \/ \E id \in DOMAIN webviews : ReceiveError(id, "Error: x at page:1")
    \/ \E id \in DOMAIN webviews, visible \in BOOLEAN : ChangeViewState(id, visible)

SpecPanels == Init /\ [][NextPanels]_vars

(***************************************************************************)
(* SpecData: processData on the tables parseFile reads from a document of  *)
(* up to MaxRows data lines, for every column selection selectColumns can  *)
(* return, up to MaxStats statistics and periods up to MaxPeriod.          *)
(***************************************************************************)
DataLines ==
    {<<"x", ";", "1", ";", "3">>,
     <<"y", ";", "a", ";", "2", ".", "5">>,
     <<"5", ";">>}

DataRows(text) == Len(parseFile(text).data)

\* The selections selectColumns returns for a non-empty pick.
Selections(headers) ==
    {selectColumns(headers, NoSeq, items).result.v :
        items \in {i \in ColumnPicks(headers) : i.def /\ i.v # <<>>}}

\* The labels of the picked statistics, in the order of the options.
RECURSIVE LabelsFrom(_, _)
LabelsFrom(picked, i) ==
    IF i > Len(StatLabels) THEN <<>>
    ELSE (IF StatLabels[i] \in picked THEN <<StatLabels[i]>> ELSE <<>>)
         \o LabelsFrom(picked, i + 1)

StatisticLists ==
    {LabelsFrom(picked, 1) :
        picked \in {q \in SUBSET {"Max", "Min", "Average", "SMA", "EMA"} : Cardinality(q) <= MaxStats}}

PeriodsFor(statistics) ==
    {[sma |-> ps, ema |-> pe] :
        ps \in IF SeqIncludes(statistics, "SMA")
               THEN {Int2Num(p) : p \in 1..MaxPeriod} ELSE {Undefined},
        pe \in IF SeqIncludes(statistics, "EMA")
               THEN {Int2Num(MaxPeriod)} ELSE {Undefined}}

\* A line is added to the document.
AppendLine(line) ==
    /\ ~args.called
    /\ DataRows(content) < MaxRows
    /\ content' = content \o line \o <<"\n">>
    /\ args' = [called |-> FALSE, selectedColumns |-> <<0>>, statistics |-> <<>>,
                periods |-> [sma |-> Undefined, ema |-> Undefined]]
    /\ out' = [series |-> <<>>, categories |-> <<>>]
    /\ UNCHANGED <<panels, states, lastUsedColumns, webviews, runs, output, lastUpdate>>

\* processData is applied to the parsed document.
Process(selectedColumns, statistics, periods) ==
    LET parsed == parseFile(content)
    IN /\ ~args.called
       /\ args' = [called |-> TRUE, selectedColumns |-> selectedColumns,
                   statistics |-> statistics, periods |-> periods]
       /\ out' = processData(parsed.headers, parsed.data, selectedColumns, statistics, periods)
       /\ UNCHANGED <<content, panels, states, lastUsedColumns, webviews, runs, output,
                      lastUpdate>>

NextData ==
    \/ \E line \in DataLines : AppendLine(line)
    \/ ~args.called /\ \E selectedColumns \in Selections(parseFile(content).headers),
          statistics \in StatisticLists :
          \E periods \in PeriodsFor(statistics) :
              Process(selectedColumns, statistics, periods)

SpecData == Init /\ [][NextData]_vars

(***************************************************************************)
(* Properties of processData, checked under SpecData.                      *)
(***************************************************************************)
\* Number of base series and of requested statistics of the last call.
NBase == Len(args.selectedColumns) - 1
NStat == Len(args.statistics)
NRows == DataRows(content)

\* The base series of the last call, from its arguments.
Bases ==
    LET parsed == parseFile(content)
    IN BaseSeries(parsed.headers, parsed.data, args.selectedColumns)

\* The overlay of the last call for base b and the j-th statistic.
OverlayOf(bases, b, j) == Overlay(bases[b], args.statistics[j], args.periods)

RatLess(a, b) == a.n * b.d < b.n * a.d

\* The non-absent values of a data sequence.
Present(data) == {data[i] : i \in {j \in 1..Len(data) : data[j].t = "num"}}
NPresent(data) == Cardinality({j \in 1..Len(data) : data[j].t = "num"})

MaxOf(data) == CHOOSE v \in Present(data) : \A w \in Present(data) : ~RatLess(v, w)
MinOf(data) == CHOOSE v \in Present(data) : \A w \in Present(data) : ~RatLess(w, v)

RECURSIVE SumPresent(_)
SumPresent(data) ==
    IF data = <<>> THEN Int2Num(0)
    ELSE JsAdd(IF Head(data).t = "num" THEN Head(data) ELSE Int2Num(0),
               SumPresent(Tail(data)))

MeanOf(data) == JsDiv(SumPresent(data), Int2Num(NPresent(data)))

IsFlat(series, length, value) ==
    /\ Len(series.data) = length
    /\ \A i \in 1..Len(series.data) : series.data[i] = value

StatSeriesName(base, statName) == base.name \o <<" ", "(">> \o statName \o <<")">>

\* C6: for every base series with at least one non-absent value, the Max,
\* Min and Average overlays of processData are flat lines of the base
\* series' length at the maximum, the minimum and the arithmetic mean of
\* the non-absent values.
C6_FlatStatisticLines ==
    args.called =>
        \A b \in 1..NBase :
            LET base == out.series[b]
            IN Present(base.data) # {} =>
                   \A i \in 1..Len(out.series) :
                       /\ out.series[i].name = StatSeriesName(base, NameMax)
                              => IsFlat(out.series[i], Len(base.data), MaxOf(base.data))
                       /\ out.series[i].name = StatSeriesName(base, NameMin)
                              => IsFlat(out.series[i], Len(base.data), MinOf(base.data))
                       /\ out.series[i].name = StatSeriesName(base, NameAvg)
                              => IsFlat(out.series[i], Len(base.data), MeanOf(base.data))

SmaSeriesName(base, period) ==
    base.name \o <<" ", "(", "S", "M", "A", " ">> \o NumberToString(period) \o <<")">>

\* The sum of the p values ending at 0-based index i, absent counted as 0.
WindowSum(data, i, p) ==
    SumPresent([q \in 1..p |-> data[i - p + 1 + q]])

\* C7: createSMA with period p on a base series of length n returns n
\* values: absent at every index i < p-1, and at every index i >= p-1 the
\* sum of the p base values at i-p+1..i, absent counted as 0, divided by p.
C7_SmaWindowMean ==
    (args.called /\ SeqIncludes(args.statistics, "SMA")) =>
        \A b \in 1..NBase :
            LET base == out.series[b]
                p == args.periods.sma.n
            IN /\ \E i \in 1..Len(out.series) :
                      out.series[i].name = SmaSeriesName(base, args.periods.sma)
               /\ \A i \in 1..Len(out.series) :
                      out.series[i].name = SmaSeriesName(base, args.periods.sma) =>
                          /\ Len(out.series[i].data) = Len(base.data)
                          /\ \A x \in 0..(Len(base.data) - 1) :
                                 out.series[i].data[x + 1] =
                                     IF x < p - 1 THEN Null
                                     ELSE JsDiv(WindowSum(base.data, x, p), Int2Num(p))

\* C7 happens: an SMA of period p >= 2 was computed over a window that holds
\* an absent value and a non-zero number.
C7_Witness ==
    /\ args.called
    /\ SeqIncludes(args.statistics, "SMA")
    /\ args.periods.sma.n >= 2
    /\ \E b \in 1..NBase :
           \E x \in (args.periods.sma.n - 1)..(Len(out.series[b].data) - 1) :
               /\ \E q \in (x - args.periods.sma.n + 2)..(x + 1) : out.series[b].data[q] = Null
               /\ \E q \in (x - args.periods.sma.n + 2)..(x + 1) :
                      out.series[b].data[q].t = "num" /\ out.series[b].data[q].n # 0

\* C8: every series processData returns, base or overlay, for any number of
\* data rows including zero, has a data sequence whose length is the number
\* of data rows, which is also the length of categories.
C8_SeriesLengthIsRowCount ==
    args.called =>
        /\ Len(out.categories) = NRows
        /\ \A i \in 1..Len(out.series) : Len(out.series[i].data) = NRows

\* The list the grouping of C9 describes: each base series followed by its
\* own overlays in request order.
GroupedList ==
    LET bases == Bases
    IN [i \in 1..(NBase * (NStat + 1)) |->
           LET b == ((i - 1) \div (NStat + 1)) + 1
               j == (i - 1) % (NStat + 1)
           IN IF j = 0 THEN bases[b] ELSE OverlayOf(bases, b, j)]

\* All base series in selection order, then the overlays of the first base
\* series in request order, then those of the second, and so on.
BasesThenOverlays ==
    LET bases == Bases
    IN [i \in 1..(NBase + NBase * NStat) |->
           IF i <= NBase THEN bases[i]
           ELSE OverlayOf(bases, ((i - NBase - 1) \div NStat) + 1,
                          ((i - NBase - 1) % NStat) + 1)]

\* C9 as stated: the series list is ordered in groups, each base series (in
\* selection order) followed immediately by its own overlays in the order
\* the statistics were requested.
C9_GroupedByBase == args.called => out.series = GroupedList

\* C9 as amended: the series list holds all base series in selection order
\* first, followed by the overlays grouped by base series (in selection
\* order), each group in the order the statistics were requested.
C9_BasesThenOverlayGroups == args.called => out.series = BasesThenOverlays

\* C9 happens: two base series at least, with two statistics at least.
C9_Witness == args.called /\ NBase >= 2 /\ NStat >= 2 /\ NRows >= 1

RECURSIVE CountChar(_, _)
CountChar(s, c) ==
    IF s = <<>> THEN 0
    ELSE (IF Head(s) = c THEN 1 ELSE 0) + CountChar(Tail(s), c)

\* C10: the iteration of processData visits only the k base series: with m
\* requested statistics the result holds exactly k base series and k*m
\* overlays, each overlay computed from one base series and none from
\* another overlay.
C10_OverlaysOfBasesOnly ==
    args.called =>
        LET bases == Bases
            overlays == {OverlayOf(bases, b, j) : b \in 1..NBase, j \in 1..NStat}
        IN /\ Len(out.series) = NBase + NBase * NStat
           /\ \A i \in 1..Len(out.series) :
                  IF i <= NBase
                  THEN out.series[i] = bases[i]
                  ELSE /\ CountChar(out.series[i].name, "(") = 1
                       /\ out.series[i] \in overlays

\* C10 happens: overlays were pushed while the list of two or more base
\* series was being iterated.
C10_Witness ==
    args.called /\ NBase >= 2 /\ NStat >= 1 /\ Len(out.series) > NBase /\ NRows >= 2

(***************************************************************************)
(* Properties of the command handler, checked under Spec.                  *)
(***************************************************************************)
\* C1 as stated: a run in which the user cancelled an input (the column
\* pick with no stored selection, the chart-type pick, the statistics pick
\* or a period entry) never reaches showChart.
C1_AnyCancelAborts ==
    \A r \in Slots : runs[r].cancelled # {} => runs[r].pc # "shown"

\* C1 as amended: when the user cancels the column pick with no stored
\* selection, or the chart-type pick, the run is aborted, showChart is not
\* reached and no panel is created, revealed or given new content; no step
\* of a run but showChart touches the panels.  A cancelled statistics pick
\* goes on to showChart with no statistics, and a cancelled period entry
\* goes on with the period 20.
C1_EarlyCancelAborts ==
    [][\A r \in Slots :
          runs'[r] # runs[r] =>
              /\ runs'[r].cancelled \cap {"columns", "chartType"} # {} =>
                     runs'[r].pc = "aborted"
              /\ runs'[r].pc # "shown" => UNCHANGED <<panels, webviews, states>>
              /\ "statistics" \in runs'[r].cancelled \ runs[r].cancelled =>
                     runs'[r].pc = "shown"
              /\ "sma" \in runs'[r].cancelled \ runs[r].cancelled =>
                     IF SeqIncludes(runs[r].statistics, "EMA")
                     THEN runs'[r].pc = "ema" /\ runs'[r].periods.sma = Int2Num(DefaultPeriod)
                     ELSE runs'[r].pc = "shown"
              /\ "ema" \in runs'[r].cancelled \ runs[r].cancelled =>
                     runs'[r].pc = "shown"]_vars

\* C1 happens: a run was aborted by a cancelled chart-type pick while a
\* panel was open.
C1_Witness ==
    \E r \in Slots :
        runs[r].pc = "aborted" /\ runs[r].cancelled = {"chartType"} /\ DOMAIN webviews # {}

\* C4: when the quick pick of columns is cancelled or confirmed empty, the
\* result of selectColumns is [0] followed by the selection it read from
\* the store for the document, and the handler goes on with it; with no
\* selection the result is null and the run is aborted; the store is left
\* unchanged in both cases.
C4_CancelFallsBackToStored ==
    [][\A r \in Slots :
          (runs[r].pc = "columns" /\ runs'[r].pc # "columns"
              /\ runs'[r].answer \in {"cancel", "empty"}) =>
              /\ lastUsedColumns' = lastUsedColumns
              /\ IF runs[r].lastUsed.def
                 THEN /\ runs'[r].pc = "chartType"
                      /\ runs'[r].selectedColumns = <<0>> \o runs[r].lastUsed.v
                 ELSE runs'[r].pc = "aborted"]_vars

\* C4 happens: a cancelled pick fell back to a stored selection of two
\* columns.
C4_Witness ==
    \E r \in Slots :
        /\ runs[r].pc = "chartType"
        /\ runs[r].answer = "cancel"
        /\ Len(runs[r].selectedColumns) = 3
        /\ GetColumns(lastUsedColumns, runs[r].fileName) = Some(SubSeq(runs[r].selectedColumns, 2, 3))

\* C5: every non-null result of selectColumns is a sequence of distinct
\* column indices in which index 0 appears exactly once, in first position.
C5_DistinctZeroFirst ==
    \A r \in Slots :
        runs[r].pc \in {"chartType", "statistics", "sma", "ema"} =>
            LET sel == runs[r].selectedColumns
            IN /\ Len(sel) >= 1
               /\ sel[1] = 0
               /\ \A i, j \in 1..Len(sel) : i # j => sel[i] # sel[j]

(***************************************************************************)
(* Properties of the panels and their stored states, checked under         *)
(* SpecPanels.                                                             *)
(***************************************************************************)
LivePanels(panelId) == {w \in DOMAIN webviews : webviews[w].panelId = panelId}

\* C2: the panels map holds at most one live panel per document identity:
\* showChart for a document whose panel exists reveals it and creates none,
\* and a panel is created only when none exists for that identity.
C2_OnePanelPerDocument ==
    /\ \A w \in DOMAIN webviews :
           /\ LivePanels(webviews[w].panelId) = {w}
           /\ GetPanel(panels, webviews[w].panelId) = Some(w)
    /\ \A k \in DOMAIN panels : LivePanels(k) = {panels[k]}
    /\ \A r \in Slots : runs[r].pc = "shown" => (runs[r].created <=> ~runs[r].hadPanel)

\* C2 happens: panels are open for two documents and the last showChart
\* revealed an existing one.
C2_Witness ==
    /\ Cardinality(DOMAIN webviews) = 2
    /\ \E r \in Slots : runs[r].pc = "shown" /\ runs[r].hadPanel /\ ~runs[r].created

\* C3: the state stored for a chart identity, as read by showChart and by
\* the become-visible handler, is the payload of the most recent
\* stateUpdate received for it, as a whole; once the panel is disposed no
\* state is stored for the identity until a new stateUpdate arrives.
C3_LastStateUpdateWins ==
    /\ \A k \in (DOMAIN states) \cup (DOMAIN lastUpdate) :
           /\ GetState(states, k) = GetState(lastUpdate, k)
           /\ LivePanels(k) # {}
    /\ \A w \in DOMAIN webviews : webviews[w].html.state = webviews[w].expect
    /\ output.kind = "restoreState" => output.state = output.expect

\* C3 happens: showChart rendered a page with a stored state that a later
\* stateUpdate replaced with another payload, which was then posted to
\* the page that became visible.
C3_Witness ==
    \E w \in DOMAIN webviews :
        /\ webviews[w].html.state.def
        /\ MapHas(states, webviews[w].panelId)
        /\ states[webviews[w].panelId] # webviews[w].html.state.v
        /\ output.kind = "restoreState"
        /\ output.state = Some(states[webviews[w].panelId])

====
